---- MODULE Spec2Model ----
(***************************************************************************)
(* A model of the remote execution orchestration of pennylane-orquestra:   *)
(* the device's execute / batch_execute (orquestra_device.py), the         *)
(* workflow builder (gen_workflow.py) and the CLI gateway and completion   *)
(* poller (cli_actions.py).                                                *)
(*                                                                         *)
(* Modelling conventions                                                   *)
(*  - a Python list is a sequence; Python's 0-based index i is the TLA+    *)
(*    index i+1; index values kept in the state (identity indices, idx)    *)
(*    are the 0-based values of the code;                                  *)
(*  - a circuit is a record [id, observables]: id stands for its OpenQASM  *)
(*    text (distinct circuits have distinct texts); a measurement kind is  *)
(*    "I" for expval(Identity), "Z" for expval of a non-identity           *)
(*    observable and "V" for a non-expectation measurement;                *)
(*    the observable at position j acts on wire j, so its serialized       *)
(*    operator stands for "[Zj]" and is modelled by j;                     *)
(*  - the value the remote step computes for circuit text q and operator   *)
(*    o is the number Expval(q, o); it is different for different (q, o)   *)
(*    and never 1, so that a result tells which circuit and operator it    *)
(*    was computed from.                                                   *)
(***************************************************************************)
EXTENDS Integers, Sequences, FiniteSets, TLC

VARIABLES
    dev,        \* the OrquestraDevice object: its private fields
    fs,         \* the user data directory: the set of workflow files in it
    platform,   \* the remote platform: the workflows submitted so far, and the
                \* file name and workflow id of each submission that returned an id
    pc,         \* position of the device call in progress
    call,       \* the call in progress: its kind and its circuits
    frame,      \* locals of batch_execute and of execute / multi_step_execute
    data,       \* the artifact last returned by loop_until_finished
    ret,        \* how the last call ended: the value returned or the exception
    ext,        \* counters of external effects (files written, submits, polls)
    snap,       \* the device and the counters as they were when the call began
    budget,     \* what the caller still does: calls left, longest circuit list
    poll,       \* loop_until_finished: its locals and its position
    env,        \* what the platform answered in the poller's last iteration
    fn          \* a function under check: its input and its output

vars == <<dev, fs, platform, pc, call, frame, data, ret, ext, snap, budget, poll, env, fn>>

devvars == <<dev, fs, platform, pc, call, frame, data, ret, ext, snap, budget>>
pollvars == <<poll, env>>

(***************************************************************************)
(* Bounds of the model.                                                    *)
(***************************************************************************)
\* longest observable list of a circuit
MaxObs == 3
\* longest circuit list drawn without restriction
MaxSmall == 3
\* longest circuit list (the long ones are drawn from a regular family)
MaxCircuits == 12
\* number of device calls in one behaviour
MaxCalls == 2
\* iterations of the polling loop followed before the timeout has elapsed
MaxTries == 21
\* longest timeout handed to loop_until_finished, in ticks of the clock
MaxTimeout == 2
\* longest list of circuits or operators handed to gen_expval_workflow
MaxPairs == 2
\* accesses of the backend_specs property in one behaviour
MaxAccesses == 3
\* longest group and longest artifact handed to the result assembly
MaxGroup == 2
MaxEntries == 3

\* kwargs.get("batch_size", 10) and kwargs.get("timeout", 600)
DefaultBatchSize == 10
DefaultTimeout == 600
\* tries % 20 == 0: the status is looked at on every 20th iteration
StatusPeriod == 20

\* Python's None where a workflow id, a file name or another string is expected
None == "None"

(***************************************************************************)
(* Sequence helpers                                                        *)
(***************************************************************************)
Range(s) == {s[i] : i \in 1..Len(s)}

Min(a, b) == IF a < b THEN a ELSE b

Front(s) == SubSeq(s, 1, Len(s) - 1)

\* the first item taken for the last
Last_first(s) == s[1]

Last(s) == s[Len(s)]

\* the elements of a finite set of numbers, in ascending order
RECURSIVE Ascending(_)
Ascending(S) ==
    IF S = {} THEN <<>>
    ELSE LET m == CHOOSE x \in S : \A y \in S : x <= y
         IN  <<m>> \o Ascending(S \ {m})

\* list.insert with the element put after position i instead of before it
list_insert_after(s, i, x) ==
    LET k == IF i + 1 > Len(s) THEN Len(s) ELSE i + 1
    IN  SubSeq(s, 1, k) \o <<x>> \o SubSeq(s, k + 1, Len(s))

\* Python's list.insert(i, x) for i >= 0: x goes before the element at 0-based
\* position i, or to the end when i is beyond the end
list_insert(s, i, x) ==
    LET k == IF i > Len(s) THEN Len(s) ELSE i
    IN  SubSeq(s, 1, k) \o <<x>> \o SubSeq(s, k + 1, Len(s))

\* s.insert(i, x) for each i of idxs, in the order of idxs
RECURSIVE insert_all(_, _, _)
insert_all(s, idxs, x) ==
    IF idxs = <<>> THEN s
    ELSE insert_all(list_insert(s, idxs[1], x), Tail(idxs), x)

(***************************************************************************)
(* Strings of digits: str(idx), and Python's comparison of two strings     *)
(***************************************************************************)
\* str(n) for n >= 0, as the sequence of its decimal digits
RECURSIVE str(_)
str(n) == IF n < 10 THEN <<n>> ELSE str(n \div 10) \o <<n % 10>>

\* int(s): the number a digit string denotes
RECURSIVE int(_)
int(s) == IF s = <<>> THEN 0 ELSE 10 * int(Front(s)) + Last(s)

\* s < t for Python strings: by the first differing character, a proper prefix
\* being smaller
str_less(s, t) ==
    \E k \in 1..(Min(Len(s), Len(t)) + 1) :
        /\ \A i \in 1..(k - 1) : s[i] = t[i]
        /\ \/ k > Len(s) /\ k <= Len(t)
           \/ k <= Len(s) /\ k <= Len(t) /\ s[k] < t[k]

\* step_dictionary(name_suffix)["name"]: "run-circuit-and-get-expval-" + suffix.
\* All step names share the prefix, so two names compare as their suffixes do:
\* a name is modelled by its suffix.
step_dictionary(name_suffix) == name_suffix

(***************************************************************************)
(* Circuits and observables                                                *)
(***************************************************************************)
\* the observable a measurement kind stands for, on wire j
Observable(kind, j) ==
    [name |-> IF kind = "I" THEN "Identity" ELSE "PauliZ",
     wires |-> j,
     return_type |-> IF kind = "V" THEN "Variance" ELSE "Expectation"]

\* the circuit with OpenQASM text id and one measurement per kind of kinds
Circuit(id, kinds) ==
    [id |-> id, observables |-> [j \in 1..Len(kinds) |-> Observable(kinds[j], j - 1)]]

\* all sequences over S of length n
RECURSIVE SeqsOfLen(_, _)
SeqsOfLen(S, n) ==
    IF n = 0 THEN {<<>>}
    ELSE {Append(s, x) : s \in SeqsOfLen(S, n - 1), x \in S}

SeqsUpTo(S, n) == UNION {SeqsOfLen(S, k) : k \in 0..n}

\* serialize_circuit: the OpenQASM text of the circuit without measurements
serialize_circuit(circuit) == circuit.id

\* serialize_operator: the operator string of a non-identity observable,
\* "[Z<wire>]", modelled by the wire
serialize_operator(observable) == observable.wires

\* isinstance(obs, Identity)
isIdentity(obs) == obs.name = "Identity"

\* process_observables: the serialized non-identity operators and the 0-based
\* indices of the identity observables, both in ascending position
process_observables(observables) ==
    LET nonid == Ascending({j \in 1..Len(observables) : ~isIdentity(observables[j])})
        iden  == Ascending({j \in 1..Len(observables) : isIdentity(observables[j])})
    IN  [ops |-> [k \in 1..Len(nonid) |-> serialize_operator(observables[nonid[k]])],
         identity_indices |-> [k \in 1..Len(iden) |-> iden[k] - 1]]

\* any(obs.return_type is not Expectation for obs in circuit.observables)
not_all_expval(circuit) ==
    \E j \in 1..Len(circuit.observables) :
        circuit.observables[j].return_type # "Expectation"

\* json.dumps / json.loads of a list
json_dumps(x) == [json |-> x]

json_loads(s) == s.json

\* self._asarray(list)
asarray(list) == [array |-> list]

(***************************************************************************)
(* gen_workflow.py                                                         *)
(***************************************************************************)
\* a registry that also knows the component "qe-unknown"
backend_import_db_open == {"qe-forest", "qe-qiskit", "qe-qulacs", "qe-unknown"}

\* the keys of backend_import_db
backend_import_db == {"qe-forest", "qe-qiskit", "qe-qulacs"}

\* every element of a paired with the first element of b
zip_first(a, b) == [k \in 1..Min(Len(a), Len(b)) |-> <<a[k], b[1]>>]

\* zip(circuits, operators): pairs up to the shorter of the two lists
zip(a, b) == [k \in 1..Min(Len(a), Len(b)) |-> <<a[k], b[k]>>]

gen_expval_workflow(component, backend_specs, circuits, operators, resources) ==
    IF component \notin backend_import_db
    THEN [exc |-> "ValueError",
          msg |-> "The specified backend component is not supported."]
    ELSE LET pairs == zip(circuits, operators)
         IN  [exc |-> "none",
              apiVersion |-> "io.orquestra.workflow/1.0.0",
              name |-> "expval",
              imports |-> <<"pennylane_orquestra", "z-quantum-core", "qe-openfermion",
                            component>>,
              steps |-> [k \in 1..Len(pairs) |->
                  [name |-> step_dictionary(str(k - 1)),
                   imports |-> <<"pennylane_orquestra", "z-quantum-core",
                                 "qe-openfermion", component>>,
                   resources |-> resources,
                   inputs |-> <<[key |-> "backend_specs", val |-> backend_specs],
                                [key |-> "operators", val |-> pairs[k][2]],
                                [key |-> "circuit", val |-> pairs[k][1]]>>]],
              types |-> <<"circuit", "expval">>]

(***************************************************************************)
(* The remote platform: steps/expval.py run on every step of a workflow    *)
(***************************************************************************)
\* the expectation value of operator op in the state circuit text q prepares
Expval(q, op) == 100 + 10 * q + op

\* the input of a step with the given key
step_input(step, key) ==
    LET i == CHOOSE i \in 1..Len(step.inputs) : step.inputs[i].key = key
    IN  step.inputs[i].val

\* run_circuit_and_get_expval: one value per operator, in the operators' order
run_circuit_and_get_expval(backend_specs, circuit, operators) ==
    LET ops == json_loads(operators)
    IN  [k \in 1..Len(ops) |-> Expval(circuit, ops[k])]

\* the entry the platform writes into the result artifact for a step
StepEntry(step) ==
    [stepName |-> step.name,
     expval |-> [list |-> run_circuit_and_get_expval(step_input(step, "backend_specs"),
                                                     step_input(step, "circuit"),
                                                     step_input(step, "operators"))]]

\* orders in which the platform may write n entries: the rotations, the reversed
\* rotations and the swaps of two neighbours of 1..n (all orders when n <= 3)
Rot(n, r) == [i \in 1..n |-> ((i - 1 + r) % n) + 1]

Rev(p) == [i \in 1..Len(p) |-> p[Len(p) + 1 - i]]

Swap(n, a, b) == [i \in 1..n |-> IF i = a THEN b ELSE IF i = b THEN a ELSE i]

WriteOrders(n) ==
    IF n = 0 THEN {<<>>}
    ELSE {Rot(n, r) : r \in 0..(n - 1)} \cup {Rev(Rot(n, r)) : r \in 0..(n - 1)}
         \cup {Swap(n, a, a + 1) : a \in 1..(n - 1)}

\* the artifact of a workflow whose step entries were written in the given order
Artifact(workflow, order) ==
    [i \in 1..Len(order) |-> StepEntry(workflow.steps[order[i]])]

(***************************************************************************)
(* Result extraction (orquestra_device.py)                                 *)
(***************************************************************************)
\* sorted(entries, key=stepName): Python's stable sort, as the insertion of the
\* entries, in their order, each after the entries whose key is not greater
RECURSIVE sorted(_)
sorted(entries) ==
    IF entries = <<>> THEN <<>>
    ELSE LET acc == sorted(Front(entries))
             e == Last(entries)
             p == Cardinality({i \in 1..Len(acc) : ~str_less(e.stepName, acc[i].stepName)})
         IN  SubSeq(acc, 1, p) \o <<e>> \o SubSeq(acc, p + 1, Len(acc))

\* The artifact loop_until_finished returns is a record [is_dict, items]:
\* is_dict tells whether the value is a dict, items are its values in insertion
\* order.  A dict is a record of its keys; a value that is no dict is a record
\* with the field not_mapping.
\* json.load of the result file the platform wrote: a dict of the step entries
json_load(items) == [is_dict |-> TRUE, items |-> items]

has_key(x, k) == k \in DOMAIN x

is_mapping(x) == ~has_key(x, "not_mapping")

\* the exception x[k] raises
subscript_error(x, k) ==
    IF ~is_mapping(x) THEN "TypeError"
    ELSE IF ~has_key(x, k) THEN "KeyError"
    ELSE "none"

\* the exception dct["expval"]["list"] raises
expval_list_error(dct) ==
    IF subscript_error(dct, "expval") # "none" THEN subscript_error(dct, "expval")
    ELSE subscript_error(dct.expval, "list")

\* the first exception of a list of outcomes
RECURSIVE first_error(_)
first_error(errors) ==
    IF errors = <<>> THEN "none"
    ELSE IF errors[1] # "none" THEN errors[1]
    ELSE first_error(Tail(errors))

\* except (IndexError, KeyError, TypeError, AttributeError)
CaughtErrors == {"IndexError", "KeyError", "TypeError", "AttributeError"}

\* the end of the try statement: the value, or ValueError (Unexpected result
\* format) after a call of workflow_details when the exception is caught
try_result(cause, val) ==
    IF cause = "none"
    THEN [exc |-> "none", cause |-> "none", val |-> val, status_queries |-> 0]
    ELSE IF cause \in CaughtErrors
    THEN [exc |-> "ValueError", cause |-> cause, val |-> <<>>, status_queries |-> 1]
    ELSE [exc |-> cause, cause |-> cause, val |-> <<>>, status_queries |-> 0]

\* multiple_steps_results, from the artifact loop_until_finished returned
multiple_steps_results(d) ==
    LET cause ==
            IF ~d.is_dict THEN "AttributeError"
            ELSE first_error(
                     [i \in 1..Len(d.items) |-> subscript_error(d.items[i], "stepName")]
                     \o [i \in 1..Len(d.items) |-> expval_list_error(d.items[i])])
        result_dicts == sorted(d.items)
    IN  try_result(cause, IF cause # "none" THEN <<>>
                          ELSE [i \in 1..Len(result_dicts) |->
                                   result_dicts[i].expval.list])

\* single_step_results, from the artifact loop_until_finished returned
single_step_results(d) ==
    LET cause == IF ~d.is_dict THEN "AttributeError"
                 ELSE IF d.items = <<>> THEN "IndexError"
                 ELSE expval_list_error(d.items[1])
    IN  try_result(cause, IF cause # "none" THEN <<>> ELSE d.items[1].expval.list)

\* insert_identity_res_batch(results, empty_obs_list, identity_indices);
\* identity_indices[k] are the identity indices of the circuit at 0-based
\* position k - 1 of the group
RECURSIVE insert_further(_, _, _)
insert_further(results, identity_indices, k) ==
    IF k > Len(identity_indices) THEN [exc |-> "none", val |-> results]
    ELSE IF identity_indices[k] = <<>>
    THEN insert_further(results, identity_indices, k + 1)
    ELSE IF k > Len(results) THEN [exc |-> "IndexError", val |-> results]
    ELSE insert_further(
             [results EXCEPT ![k] = insert_all(results[k], identity_indices[k], 1)],
             identity_indices, k + 1)

insert_identity_res_batch(results, empty_obs_list, identity_indices) ==
    insert_further(insert_all(results, empty_obs_list, <<>>), identity_indices, 1)

(***************************************************************************)
(* The device object and its collaborators                                 *)
(***************************************************************************)
\* QeForestDevice(wires, keep_files=keep, batch_size=size): OrquestraDevice.__init__
OrquestraDevice(keep, size) ==
    [qe_component |-> "qe-forest",
     qe_module_name |-> "qeforest.simulator",
     qe_function_name |-> "ForestSimulator",
     backend |-> "wavefunction-simulator",
     shots |-> "10000",
     batch_size |-> size,
     keep_files |-> keep,
     resources |-> None,
     timeout |-> DefaultTimeout,
     latest_id |-> None,
     filenames |-> <<>>,
     backend_specs |-> None]

\* create_backend_specs followed by json.dumps: the specification as a string
create_backend_specs(d) ==
    "{module_name: " \o d.qe_module_name \o ", function_name: " \o d.qe_function_name
    \o (IF d.backend # None THEN ", device_name: " \o d.backend ELSE "")
    \o (IF d.shots # None THEN ", n_samples: " \o d.shots ELSE "") \o "}"

\* a property that builds the specification at every access
backend_specs_fresh(d) == create_backend_specs(d)

\* the backend_specs property: the value it returns, and the device after it
backend_specs(d) ==
    IF d.backend_specs = None THEN create_backend_specs(d) ELSE d.backend_specs

backend_specs_cached(d) == [d EXCEPT !.backend_specs = backend_specs(d)]

\* str(uuid.uuid4()): the n-th identifier drawn in the process
uuid4(n) == "uuid" \o ToString(n)

\* the workflow id the platform gives to its n-th workflow
WorkflowId(n) == "workflow" \o ToString(n)

NoWorkflow == [exc |-> "none", steps |-> <<>>]

Frame0 ==
    [single |-> TRUE, idx |-> 0, results |-> <<>>, file_prefix |-> None,
     circuits |-> <<>>, qasm_circuits |-> <<>>, ops |-> <<>>, filename |-> None,
     workflow |-> NoWorkflow, workflow_id |-> None, empty_obs_list |-> <<>>,
     identity_indices |-> <<>>, res |-> <<>>]

NoCall == [kind |-> "none", circuits |-> <<>>]

NoRet == [kind |-> "none", exc |-> "none", val |-> <<>>]

Return(val) == [kind |-> "return", exc |-> "none", val |-> val]

Raise(exc) == [kind |-> "raise", exc |-> exc, val |-> <<>>]

\* [1] * n
Ones(n) == [j \in 1..n |-> 1]

(***************************************************************************)
(* cli_actions.qe_submit on the output res of `qe submit workflow`: lines  *)
(* are its lines, a line the list of its whitespace-separated tokens;      *)
(* is_list tells whether res is a list of lines (what readlines returns)   *)
(* or another value holding the same text                                  *)
(***************************************************************************)
\* a success test that ignores the case of the letters
HasSuccess_any_case(res) ==
    \E i \in 1..Len(res.lines) : \E j \in 1..Len(res.lines[i]) :
        res.lines[i][j] \in {"Success", "Successfully", "success"}

\* "Success" in "".join(res): some token holds the substring
HasSuccess(res) ==
    \E i \in 1..Len(res.lines) : \E j \in 1..Len(res.lines[i]) :
        res.lines[i][j] \in {"Success", "Successfully"}

\* a submit that deletes the file whatever keep_file is
removes_always(keep_file) == TRUE

\* if not keep_file: os.remove(filepath)
removes(keep_file) == ~keep_file

\* unexpected_resp_msg
UnexpectedResponse ==
    <<<<"Received", "an", "unexpected", "response", "after", "submitting", "workflow.">>>>

\* removed: whether os.remove(filepath) ran
qe_submit(res, keep_file) ==
    IF ~HasSuccess(res)
    THEN [exc |-> "ValueError", msg |-> res.lines, removed |-> FALSE, workflow_id |-> None]
    ELSE IF ~res.is_list \/ Len(res.lines) < 2 \/ res.lines[2] = <<>>
    THEN [exc |-> "ValueError", msg |-> UnexpectedResponse,
          removed |-> removes(keep_file), workflow_id |-> None]
    ELSE [exc |-> "none", msg |-> <<>>, removed |-> removes(keep_file),
          workflow_id |-> Last(res.lines[2])]

\* what `qe submit workflow` may print when the platform names the workflow id
SubmitResponses(id) ==
    {[is_list |-> TRUE, lines |-> l] : l \in
        {<<<<"Successfully", "submitted", "workflow">>, <<"Workflow", "ID:", id>>>>,
         <<<<"Success">>>>,
         <<<<"Error:", "unauthorized">>>>}}

(***************************************************************************)
(* Inputs of the caller                                                    *)
(***************************************************************************)
\* the measurement lists of a single circuit handed to execute
ExecuteKinds == SeqsUpTo({"I", "Z"}, MaxObs) \cup {<<"V">>, <<"Z", "V">>}

\* the measurement lists of the circuits of a short batch
BatchKinds == {<<"I">>, <<"I", "I">>, <<"Z">>, <<"I", "Z">>, <<"Z", "I">>, <<"V">>}

\* a long batch: every circuit measures one non-identity observable, but for at
\* most one circuit, which measures the identity only or the identity first
LongBatches ==
    {[i \in 1..n |-> IF i = e THEN k ELSE <<"Z">>] :
        n \in {MaxCircuits}, e \in 0..MaxCircuits,
        k \in {<<"I">>, <<"I", "Z">>}}

\* the circuit lists handed to batch_execute, none longer than maxlen
CircuitLists(maxlen) ==
    LET kinds == {ks \in UNION {SeqsOfLen(BatchKinds, n) : n \in 1..Min(MaxSmall, maxlen)} : TRUE}
                 \cup {ks \in LongBatches : Len(ks) <= maxlen}
    IN  {[i \in 1..Len(ks) |-> Circuit(i - 1, ks[i])] : ks \in kinds}

\* the sizes a device's batch_size option takes
BatchSizes == {1, 2, DefaultBatchSize, MaxCircuits}

(***************************************************************************)
(* Device calls: execute and batch_execute                                 *)
(***************************************************************************)
\* the call in progress ends: r is returned or raised to the caller
EndCall(r) ==
    /\ pc' = "done"
    /\ ret' = r
    /\ frame' = Frame0

\* an execute that never takes the all-identity shortcut
no_ops_never(ops) == FALSE

\* a multi_step_execute that never takes the all-identity shortcut
any_ops_always(ops) == TRUE

\* not ops (execute), all(ops) and any(ops) (multi_step_execute)
no_ops(ops) == ops = <<>>

all_ops(ops) == \A k \in 1..Len(ops) : ops[k] # <<>>

any_ops(ops) == \E k \in 1..Len(ops) : ops[k] # <<>>

\* the caller starts a call
StartCall(kind, circuits) ==
    /\ pc = "idle"
    /\ budget.calls > 0
    /\ Len(circuits) <= budget.circuits
    /\ budget' = [calls |-> budget.calls - 1, circuits |-> budget.circuits - Len(circuits)]
    /\ call' = [kind |-> kind, circuits |-> circuits]
    /\ snap' = [latest_id |-> dev.latest_id, filenames |-> dev.filenames, fs |-> fs]
    /\ data' = <<>>
    /\ UNCHANGED platform

\* what execute returns is handed on by execute itself, or by batch_execute as
\* the one-element list [self.execute(circuits[0])]
Returned(kind, val) == IF kind = "execute" THEN Return(val) ELSE Return(<<val>>)

\* execute(circuit) up to its call of qe_submit, or to its end when it raises or
\* when all observables are the identity
execute(kind, circuit) ==
    LET po == process_observables(circuit.observables)
        workflow == gen_expval_workflow(dev.qe_component, backend_specs(dev),
                                        <<serialize_circuit(circuit)>>,
                                        <<json_dumps(po.ops)>>, dev.resources)
        file_id == uuid4(ext.uuids + 1)
        filename == "expval-" \o file_id \o ".yaml"
        quiet == [writes |-> 0, submits |-> 0, polls |-> 0, uuids |-> ext.uuids]
    IN  IF not_all_expval(circuit)
        THEN /\ EndCall(Raise("NotImplementedError"))
             /\ ext' = quiet
             /\ UNCHANGED <<dev, fs>>
        ELSE IF no_ops(po.ops)
        THEN /\ EndCall(Returned(kind, asarray(Ones(Len(po.identity_indices)))))
             /\ ext' = quiet
             /\ UNCHANGED <<dev, fs>>
        ELSE IF workflow.exc # "none"
        THEN /\ EndCall(Raise(workflow.exc))
             /\ ext' = quiet
             /\ dev' = backend_specs_cached(dev)
             /\ UNCHANGED fs
        ELSE /\ dev' = backend_specs_cached(dev)
             /\ fs' = fs \cup {filename}
             /\ ext' = [quiet EXCEPT !.writes = 1, !.uuids = ext.uuids + 1]
             /\ frame' = [Frame0 EXCEPT !.single = TRUE,
                                        !.circuits = <<circuit>>,
                                        !.qasm_circuits = <<serialize_circuit(circuit)>>,
                                        !.ops = <<json_dumps(po.ops)>>,
                                        !.filename = filename,
                                        !.workflow = workflow,
                                        !.identity_indices = <<po.identity_indices>>]
             /\ pc' = "qe_submit"
             /\ ret' = NoRet

Execute ==
    /\ pc = "idle"
    /\ \E kinds \in ExecuteKinds :
        /\ StartCall("execute", <<Circuit(0, kinds)>>)
        /\ execute("execute", Circuit(0, kinds))
    /\ UNCHANGED <<pollvars, fn>>

\* batch_execute(circuits) up to its first call of multi_step_execute; a list
\* of one circuit is handed to execute
BatchExecute ==
    /\ pc = "idle"
    /\ budget.calls > 0
    /\ \E circuits \in CircuitLists(budget.circuits) :
        /\ StartCall("batch_execute", circuits)
        /\ IF Len(circuits) = 1
           THEN execute("batch_execute", circuits[1])
           ELSE /\ frame' = [Frame0 EXCEPT !.single = FALSE,
                                           !.file_prefix = uuid4(ext.uuids + 1)]
                /\ ext' = [writes |-> 0, submits |-> 0, polls |-> 0,
                           uuids |-> ext.uuids + 1]
                /\ pc' = "multi_step_execute"
                /\ ret' = NoRet
                /\ UNCHANGED <<dev, fs>>
    /\ UNCHANGED <<pollvars, fn>>

\* a while loop that does not advance idx
GroupDone_same_idx(circuits, res) ==
    /\ frame' = [Frame0 EXCEPT !.single = FALSE,
                               !.file_prefix = frame.file_prefix,
                               !.idx = frame.idx,
                               !.results = res,
                               !.circuits = circuits,
                               !.res = res]
    /\ pc' = "multi_step_execute" /\ ret' = ret

\* multi_step_execute returned res to batch_execute: results.extend(res),
\* idx += batch_size, and the while loop goes on or batch_execute returns
GroupDone(circuits, res) ==
    LET results == frame.results \o res
        idx == frame.idx + dev.batch_size
        after == [Frame0 EXCEPT !.single = FALSE,
                                !.file_prefix = frame.file_prefix,
                                !.idx = idx,
                                !.results = results,
                                !.circuits = circuits,
                                !.res = res]
    IN  /\ frame' = after
        /\ IF idx < Len(call.circuits)
           THEN pc' = "multi_step_execute" /\ ret' = ret
           ELSE pc' = "done" /\ ret' = Return(results)

\* 0-based positions of the empty operator lists
empty_positions(ops) ==
    LET at == Ascending({k \in 1..Len(ops) : ops[k] = <<>>})
    IN  [k \in 1..Len(at) |-> at[k] - 1]

\* [o for o in ops if o]
non_empty(ops) ==
    LET at == Ascending({k \in 1..Len(ops) : ops[k] # <<>>})
    IN  [k \in 1..Len(at) |-> ops[at[k]]]

\* a slice that takes the element at end_idx too
slice_inclusive(list, idx, end_idx) == SubSeq(list, idx + 1, Min(end_idx + 1, Len(list)))

\* circuits[idx:end_idx]
slice(list, idx, end_idx) == SubSeq(list, idx + 1, Min(end_idx, Len(list)))

\* multi_step_execute(batch, file_id) on the group at idx, up to its call of
\* qe_submit, or to its end when it raises or when every circuit of the group
\* measures the identity only
MultiStepExecute ==
    /\ pc = "multi_step_execute"
    /\ LET circuits == slice(call.circuits, frame.idx, frame.idx + dev.batch_size)
           file_id == frame.file_prefix \o "-" \o ToString(frame.idx)
           qasm_circuits == [k \in 1..Len(circuits) |-> serialize_circuit(circuits[k])]
           po == [k \in 1..Len(circuits) |-> process_observables(circuits[k].observables)]
           ops == [k \in 1..Len(circuits) |-> po[k].ops]
           identity_indices == [k \in 1..Len(circuits) |-> po[k].identity_indices]
           empty_obs_list == empty_positions(ops)
           kept == IF ~all_ops(ops) THEN non_empty(ops) ELSE ops
           ops_json == [k \in 1..Len(kept) |-> json_dumps(kept[k])]
           workflow == gen_expval_workflow(dev.qe_component, backend_specs(dev),
                                           qasm_circuits, ops_json, dev.resources)
           filename == "expval-" \o file_id \o ".yaml"
       IN  IF \E k \in 1..Len(circuits) : not_all_expval(circuits[k])
           THEN /\ EndCall(Raise("NotImplementedError"))
                /\ UNCHANGED <<dev, fs, ext>>
           ELSE IF ~all_ops(ops) /\ ~any_ops(ops)
           THEN /\ GroupDone(circuits, [k \in 1..Len(circuits) |->
                                 asarray(Ones(Len(circuits[k].observables)))])
                /\ UNCHANGED <<dev, fs, ext>>
           ELSE IF workflow.exc # "none"
           THEN /\ EndCall(Raise(workflow.exc))
                /\ dev' = backend_specs_cached(dev)
                /\ UNCHANGED <<fs, ext>>
           ELSE /\ dev' = backend_specs_cached(dev)
                /\ fs' = fs \cup {filename}
                /\ ext' = [ext EXCEPT !.writes = @ + 1]
                /\ frame' = [frame EXCEPT !.circuits = circuits,
                                          !.qasm_circuits = qasm_circuits,
                                          !.ops = ops_json,
                                          !.res = <<>>,
                                          !.filename = filename,
                                          !.workflow = workflow,
                                          !.empty_obs_list = empty_obs_list,
                                          !.identity_indices = identity_indices]
                /\ pc' = "qe_submit"
                /\ ret' = ret
    /\ data' = <<>>
    /\ UNCHANGED <<platform, call, snap, budget, pollvars, fn>>

\* a device that puts the newest file name first
record_submission_prepend(d, workflow_id, filename) ==
    [d EXCEPT !.latest_id = workflow_id,
              !.filenames = IF d.keep_files THEN <<filename>> \o @ ELSE @]

\* a device that keeps the first workflow id it got
record_submission_first_id(d, workflow_id, filename) ==
    [d EXCEPT !.latest_id = IF @ = None THEN workflow_id ELSE @,
              !.filenames = IF d.keep_files THEN Append(@, filename) ELSE @]

\* if self._keep_files: self._filenames.append(filename), and
\* self._latest_id = workflow_id
record_submission(d, workflow_id, filename) ==
    [d EXCEPT !.latest_id = workflow_id,
              !.filenames = IF d.keep_files THEN Append(@, filename) ELSE @]

\* qe_submit(filepath, keep_file) and the statements up to the call of
\* single_step_results / multiple_steps_results
QeSubmit ==
    /\ pc = "qe_submit"
    /\ \E res \in SubmitResponses(WorkflowId(platform.count + 1)) :
        LET r == qe_submit(res, dev.keep_files)
        IN  /\ platform' = IF HasSuccess(res)
                           THEN [count |-> platform.count + 1,
                                 id |-> WorkflowId(platform.count + 1),
                                 workflow |-> frame.workflow,
                                 handles |-> IF r.exc = "none"
                                             THEN Append(platform.handles,
                                                      [filename |-> frame.filename,
                                                       workflow_id |-> r.workflow_id])
                                             ELSE platform.handles]
                           ELSE platform
            /\ fs' = IF r.removed THEN fs \ {frame.filename} ELSE fs
            /\ ext' = [ext EXCEPT !.submits = @ + 1]
            /\ IF r.exc # "none"
               THEN /\ EndCall(Raise(r.exc))
                    /\ UNCHANGED dev
               ELSE /\ dev' = record_submission(dev, r.workflow_id, frame.filename)
                    /\ frame' = [frame EXCEPT !.workflow_id = r.workflow_id]
                    /\ pc' = "loop_until_finished"
                    /\ ret' = ret
    /\ UNCHANGED <<call, data, snap, budget, pollvars, fn>>

\* how loop_until_finished ends
LoopOutcomes == {"return", "TimeoutError", "ValueError"}

\* single_step_results / multiple_steps_results and the rest of execute /
\* multi_step_execute: loop_until_finished ends with outcome; when it returns,
\* the platform has written the step entries of the workflow in some order
Results ==
    /\ pc = "loop_until_finished"
    /\ ext' = [ext EXCEPT !.polls = @ + 1]
    /\ \E outcome \in LoopOutcomes :
        IF outcome # "return"
        THEN /\ EndCall(Raise(outcome))
             /\ data' = <<>>
        ELSE \E order \in WriteOrders(Len(platform.workflow.steps)) :
            LET artifact == Artifact(platform.workflow, order)
                one == single_step_results(json_load(artifact))
                many == multiple_steps_results(json_load(artifact))
                res == insert_identity_res_batch(many.val, frame.empty_obs_list,
                                                 frame.identity_indices)
            IN  /\ data' = artifact
                /\ IF frame.single
                   THEN IF one.exc # "none"
                        THEN EndCall(Raise(one.exc))
                        ELSE EndCall(Returned(call.kind,
                                 asarray(insert_all(one.val, frame.identity_indices[1], 1))))
                   ELSE IF many.exc # "none"
                        THEN EndCall(Raise(many.exc))
                        ELSE IF res.exc # "none"
                        THEN EndCall(Raise(res.exc))
                        ELSE GroupDone(frame.circuits,
                                       [k \in 1..Len(res.val) |-> asarray(res.val[k])])
    /\ UNCHANGED <<dev, fs, platform, call, snap, budget, pollvars, fn>>

\* the caller takes the result of the call
TakeResult ==
    /\ pc = "done"
    /\ pc' = "idle"
    /\ call' = NoCall
    /\ ret' = NoRet
    /\ data' = <<>>
    /\ platform' = [platform EXCEPT !.workflow = NoWorkflow]
    /\ UNCHANGED <<dev, fs, frame, ext, snap, budget, pollvars, fn>>

NoPoll == [pc |-> "idle"]

NoEnv == [status |-> <<>>]

NoFn == [name |-> "none"]

(***************************************************************************)
(* gen_expval_workflow as a function of its arguments                      *)
(***************************************************************************)
\* the component argument: the supported keys and one that is not supported
Components == backend_import_db \cup {"qe-unknown"}

\* the circuits argument: up to MaxPairs OpenQASM programs
WorkflowCircuits == SeqsUpTo({1, 2}, MaxPairs)

\* the operators argument: up to MaxPairs json strings of operator lists
WorkflowOperators == SeqsUpTo({json_dumps(<<0>>), json_dumps(<<1>>)}, MaxPairs)

GenExpvalWorkflowCall ==
    /\ fn.name = "gen_expval_workflow" /\ ~fn.returned
    /\ fn' = [fn EXCEPT !.out = gen_expval_workflow(fn.component, fn.backend_specs,
                                                    fn.circuits, fn.operators,
                                                    fn.resources),
                        !.returned = TRUE]
    /\ UNCHANGED <<devvars, pollvars>>

(***************************************************************************)
(* The result assembly of multi_step_execute on artifacts of any shape     *)
(***************************************************************************)
\* the end of multi_step_execute, from multiple_steps_results on: the results
\* of the steps of artifact d, the identity results inserted, as arrays
assemble_results(d, empty_obs_list, identity_indices) ==
    LET many == multiple_steps_results(d)
        res == insert_identity_res_batch(many.val, empty_obs_list, identity_indices)
    IN  IF many.exc # "none" THEN [exc |-> many.exc, val |-> <<>>]
        ELSE IF res.exc # "none" THEN [exc |-> res.exc, val |-> <<>>]
        ELSE [exc |-> "none", val |-> [k \in 1..Len(res.val) |-> asarray(res.val[k])]]

\* the groups: up to MaxGroup circuits, not all of them measuring the
\* identity only (such a group is not submitted)
ShapeGroups ==
    LET kinds == {<<"I">>, <<"Z">>, <<"I", "Z">>, <<"Z", "Z">>}
        lists == UNION {SeqsOfLen(kinds, n) : n \in 1..MaxGroup}
    IN  {[i \in 1..Len(ks) |-> Circuit(i - 1, ks[i])] :
            ks \in {l \in lists : \E i \in 1..Len(l) : "Z" \in Range(l[i])}}

\* the artifacts: one to MaxEntries step entries, in the order of their names,
\* each with a list of up to two values
ShapeArtifacts ==
    LET lists == {<<>>, <<Expval(0, 0)>>, <<Expval(0, 0), Expval(0, 1)>>}
        ls == UNION {SeqsOfLen(lists, n) : n \in 1..MaxEntries}
    IN  {json_load([i \in 1..Len(l) |->
                       [stepName |-> str(i - 1), expval |-> [list |-> l[i]]]]) :
            l \in ls}

AssembleResultsCall ==
    /\ fn.name = "assemble_results" /\ ~fn.returned
    /\ LET po == [k \in 1..Len(fn.circuits) |->
                    process_observables(fn.circuits[k].observables)]
           ops == [k \in 1..Len(fn.circuits) |-> po[k].ops]
           identity_indices == [k \in 1..Len(fn.circuits) |-> po[k].identity_indices]
       IN  fn' = [fn EXCEPT !.out = assemble_results(fn.d, empty_positions(ops),
                                                    identity_indices),
                            !.steps = Len(non_empty(ops)),
                            !.returned = TRUE]
    /\ UNCHANGED <<devvars, pollvars>>

(***************************************************************************)
(* The backend_specs property of a device whose options change             *)
(***************************************************************************)
\* the values the options shots and backend are set to
ShotsOptions == {None, "10000", "100"}

BackendOptions == {None, "wavefunction-simulator", "3q-qvm"}

\* an access of dev.backend_specs: creates counts the calls of
\* create_backend_specs, first is the value of the first access, out the value
\* of this one
BackendSpecsAccess ==
    /\ fn.name = "backend_specs"
    /\ fn.accesses < MaxAccesses
    /\ dev' = backend_specs_cached(dev)
    /\ fn' = [fn EXCEPT !.accesses = @ + 1,
                        !.creates = IF dev.backend_specs = None THEN @ + 1 ELSE @,
                        !.first = IF fn.accesses = 0 THEN backend_specs(dev) ELSE @,
                        !.out = backend_specs(dev),
                        !.stale = backend_specs(dev) # create_backend_specs(dev)]
    /\ UNCHANGED <<fs, platform, pc, call, frame, data, ret, ext, snap, budget, pollvars>>

\* dev.shots = shots
SetShots ==
    /\ fn.name = "backend_specs"
    /\ \E shots \in ShotsOptions \ {dev.shots} : dev' = [dev EXCEPT !.shots = shots]
    /\ UNCHANGED <<fs, platform, pc, call, frame, data, ret, ext, snap, budget, pollvars, fn>>

\* dev.backend = backend
SetBackend ==
    /\ fn.name = "backend_specs"
    /\ \E backend \in BackendOptions \ {dev.backend} :
        dev' = [dev EXCEPT !.backend = backend]
    /\ UNCHANGED <<fs, platform, pc, call, frame, data, ret, ext, snap, budget, pollvars, fn>>

(***************************************************************************)
(* single_step_results and multiple_steps_results on artifacts of any      *)
(* structure                                                               *)
(***************************************************************************)
\* the entries of an artifact: two well-formed ones, a value that is no dict,
\* and dicts without "stepName", without "expval", with an "expval" that is
\* no dict or has no "list"
ArtifactEntries ==
    {[stepName |-> str(0), expval |-> [list |-> <<Expval(0, 0)>>]],
     [stepName |-> str(1), expval |-> [list |-> <<Expval(1, 0)>>]],
     [not_mapping |-> TRUE],
     [expval |-> [list |-> <<Expval(0, 0)>>]],
     [stepName |-> str(0)],
     [stepName |-> str(0), expval |-> [not_mapping |-> TRUE]],
     [stepName |-> str(0), expval |-> [other |-> <<>>]]}

\* the artifacts: dicts of up to two entries, and a value that is no dict
FormatArtifacts ==
    {[is_dict |-> b, items |-> <<>>] : b \in BOOLEAN}
    \cup {json_load(<<e>>) : e \in ArtifactEntries}
    \cup {json_load(<<e, f>>) : e \in ArtifactEntries, f \in ArtifactEntries}

SingleStepResultsCall ==
    /\ fn.name = "results" /\ ~fn.returned
    /\ fn' = [fn EXCEPT !.out = single_step_results(fn.d), !.returned = TRUE,
                        !.multi = FALSE]
    /\ UNCHANGED <<devvars, pollvars>>

MultipleStepsResultsCall ==
    /\ fn.name = "results" /\ ~fn.returned
    /\ fn' = [fn EXCEPT !.out = multiple_steps_results(fn.d), !.returned = TRUE,
                        !.multi = TRUE]
    /\ UNCHANGED <<devvars, pollvars>>

(***************************************************************************)
(* qe_submit as a function of the output of the submit command             *)
(***************************************************************************)
\* first and second lines an output is made of ("absent": no such line)
FirstLines ==
    {<<"Successfully", "submitted", "workflow">>, <<"Success">>, <<"success">>,
     <<"Error:", "unauthorized">>, <<>>}

SecondLines ==
    {<<"Workflow", "ID:", "wf-1">>, <<"wf-1">>, <<"Success", "wf-2">>, <<>>}

\* the outputs of the submit command
SubmitOutputs ==
    {[is_list |-> b, lines |-> l] : b \in BOOLEAN,
        l \in {<<>>} \cup {<<f>> : f \in FirstLines}
              \cup {<<f, g>> : f \in FirstLines, g \in SecondLines}}

QeSubmitCall ==
    /\ fn.name = "qe_submit"
    /\ ~fn.returned
    /\ LET out == qe_submit(fn.res, fn.keep_file)
       IN  fn' = [fn EXCEPT !.out = out, !.returned = TRUE,
                            !.file_exists = ~out.removed]
    /\ UNCHANGED <<devvars, pollvars>>

(***************************************************************************)
(* multiple_steps_results as a function of the artifact                    *)
(***************************************************************************)
\* the artifact of a workflow of n steps, one operator each, written in order
SortArtifact(n, order) ==
    Artifact(gen_expval_workflow("qe-forest", None, [k \in 1..n |-> k - 1],
                                 [k \in 1..n |-> json_dumps(<<0>>)], None),
             order)

MultipleStepsResults ==
    /\ fn.name = "multiple_steps_results"
    /\ ~fn.returned
    /\ fn' = [fn EXCEPT !.out = multiple_steps_results(json_load(fn.d)),
                        !.returned = TRUE]
    /\ UNCHANGED <<devvars, pollvars>>

(***************************************************************************)
(* cli_actions.loop_until_finished                                         *)
(*                                                                         *)
(* A text the CLI prints is the list of its lines, a line the list of its  *)
(* whitespace-separated tokens.  The clock counts ticks; time.time() reads *)
(* env.now.  urllib.request.urlopen(location) either returns or raises the *)
(* URLError the loop handles; env.live tells which.                        *)
(***************************************************************************)
\* "".join(status).split(): the tokens of all lines (every line the CLI
\* prints ends with a newline, so no two tokens are joined)
RECURSIVE join_split(_)
join_split(lines) ==
    IF lines = <<>> THEN <<>> ELSE lines[1] \o join_split(Tail(lines))

\* "Failed" in details_string
has_failed(status) == "Failed" \in Range(join_split(status))

\* a loop that looks at the status in every iteration
status_check_always(tries) == TRUE

\* the periodic check that never finds a failure
status_check_never(tries) == FALSE

\* tries % 20 == 0
status_check_due(tries) == tries % StatusPeriod = 0

\* a loop without a timeout check
timed_out_never(elapsed, timeout) == FALSE

\* a timeout check that fires as soon as the timeout is reached
timed_out_at(elapsed, timeout) == elapsed >= timeout

\* time.time() - start > timeout
timed_out(elapsed, timeout) == elapsed > timeout

\* a location taken from the first token of the second line
location_first_token(results) ==
    IF Len(results) < 2 \/ Len(results[2]) < 1
    THEN [exc |-> "IndexError", val |-> None]
    ELSE [exc |-> "none", val |-> results[2][1]]

\* results[1].split()[1]: the second token of the second line, or IndexError
location_of(results) ==
    IF Len(results) < 2 \/ Len(results[2]) < 2
    THEN [exc |-> "IndexError", val |-> None]
    ELSE [exc |-> "none", val |-> results[2][2]]

\* the results text names a location and the location can be opened
Dereferenceable(results, live) ==
    Len(results) >= 2 /\ Len(results[2]) >= 2 /\ live

\* what a `qe get workflow` that succeeds may print
StatusTexts ==
    {<<<<"Name:", "FailedJob">>, <<"Status:", "Running">>>>,
     <<<<"Name:", "expval">>, <<"Status:", "Failed">>>>}

\* what a `qe get workflowresult` that succeeds may print
ResultsTexts ==
    {<<<<"Some", "message2">>>>,
     <<<<"First", "line">>, <<"Second">>>>,
     <<<<"Name:", "expval">>, <<"Location:", "http://host/result.tgz">>>>}

\* how a `qe get` process may end: its exit code and the lines on its stdout;
\* a process that fails prints nothing on stdout
StatusAnswers ==
    {[rc |-> 0, lines |-> t] : t \in StatusTexts} \cup {[rc |-> 1, lines |-> <<>>]}

ResultsAnswers ==
    {[rc |-> 0, lines |-> t] : t \in ResultsTexts} \cup {[rc |-> 1, lines |-> <<>>]}

\* qe_get: process.stdout.readlines(); the exit code of the process is not read
qe_get(answer) == answer.lines

\* the timeouts handed to loop_until_finished
PollTimeouts == {1, MaxTimeout}

\* a loop body that asks for the results before it looks at the clock and at
\* the status
loop_body_results_first(p, status, results, live) ==
    LET location == location_of(results)
        q == [p EXCEPT !.queried = TRUE, !.results_queries = @ + 1]
    IN  IF location.exc = "none" /\ live
        THEN [q EXCEPT !.pc = "urlretrieve", !.location = location.val]
        ELSE IF timed_out(p.elapsed, p.timeout)
        THEN [q EXCEPT !.pc = "raised", !.exc = "TimeoutError", !.msg = status,
                       !.status_queries = @ + 1]
        ELSE IF status_check_due(p.tries) /\ has_failed(status)
        THEN [q EXCEPT !.pc = "raised", !.exc = "ValueError", !.msg = status,
                       !.status_queries = @ + 1]
        ELSE IF status_check_due(p.tries)
        THEN [q EXCEPT !.status_queries = @ + 1]
        ELSE q

\* the body of the while loop after tries += 1, on the locals p: the timeout
\* check, the status check of every 20th iteration, the results query, the
\* location and urlopen; status_queries and results_queries count the calls
\* of workflow_details and of workflow_results
loop_body(p, status, results, live) ==
    LET location == location_of(results)
        checked == IF status_check_due(p.tries)
                   THEN [p EXCEPT !.status_queries = @ + 1] ELSE p
        q == [checked EXCEPT !.queried = TRUE, !.results_queries = @ + 1]
    IN  IF timed_out(p.elapsed, p.timeout)
        THEN [p EXCEPT !.pc = "raised", !.exc = "TimeoutError", !.msg = status,
                       !.status_queries = @ + 1]
        ELSE IF status_check_due(p.tries) /\ has_failed(status)
        THEN [checked EXCEPT !.pc = "raised", !.exc = "ValueError", !.msg = status]
        ELSE IF location.exc # "none"
        THEN q
        ELSE IF ~live
        THEN q
        ELSE [q EXCEPT !.pc = "urlretrieve", !.location = location.val]

\* the clock advances
Tick ==
    /\ poll.pc = "polling"
    /\ env.now - poll.start <= poll.timeout
    /\ env' = [env EXCEPT !.now = @ + 1]
    /\ UNCHANGED <<devvars, poll, fn>>

\* one iteration of the while loop; status, results and live are what the
\* platform would answer during this iteration
LoopIteration ==
    /\ poll.pc = "polling"
    /\ poll.tries < MaxTries \/ timed_out(env.now - poll.start, poll.timeout)
    /\ \E status_answer \in StatusAnswers, results_answer \in ResultsAnswers,
          live \in BOOLEAN :
        LET status == qe_get(status_answer)
            results == qe_get(results_answer)
            tries == poll.tries + 1
            elapsed == env.now - poll.start
            p == [poll EXCEPT !.tries = tries, !.elapsed = elapsed, !.queried = FALSE]
        IN  /\ env' = [env EXCEPT
                         !.status = status, !.results = results, !.live = live,
                         !.status_rc = status_answer.rc,
                         !.results_rc = results_answer.rc,
                         !.everFailed = @ \/ has_failed(status),
                         !.everLive = @ \/ Dereferenceable(results, live)]
            /\ poll' = loop_body(p, status, results, live)
    /\ UNCHANGED <<devvars, fn>>

\* a retrieval that decodes the file whatever it is
retrieved_unchecked(p, is_tarfile, has_json) ==
    [p EXCEPT !.pc = "returned", !.fetches = @ + 1, !.is_tarfile = is_tarfile,
              !.data = p.workflow_id \o "_workflow_result.json"]

\* the statements after the loop on the file urlretrieve stored: the archive is
\* extracted and <workflow_id>_workflow_result.json is loaded (open raises
\* FileNotFoundError when the archive does not hold it)
retrieved(p, is_tarfile, has_json) ==
    LET q == [p EXCEPT !.fetches = @ + 1, !.is_tarfile = is_tarfile]
    IN  IF ~is_tarfile
        THEN [q EXCEPT !.pc = "raised", !.exc = "ValueError",
                       !.msg = <<<<"Unexpected", "datatype", "for", "the", "retrieved",
                                   "result:", "not", "a", "tarfile.">>>>]
        ELSE IF ~has_json
        THEN [q EXCEPT !.pc = "raised", !.exc = "FileNotFoundError"]
        ELSE [q EXCEPT !.pc = "returned",
                       !.data = p.workflow_id \o "_workflow_result.json"]

\* after the loop: urlretrieve, and the json file of the tar archive
UrlRetrieve ==
    /\ poll.pc = "urlretrieve"
    /\ \E is_tarfile \in BOOLEAN, has_json \in BOOLEAN :
        poll' = retrieved(poll, is_tarfile, has_json)
    /\ UNCHANGED <<devvars, env, fn>>

\* the device variables after construction, a caller with the given budget
NewDevice(keep, size, calls, circuits) ==
    /\ dev = OrquestraDevice(keep, size)
    /\ fs = {}
    /\ platform = [count |-> 0, id |-> None, workflow |-> NoWorkflow, handles |-> <<>>]
    /\ pc = "idle"
    /\ call = NoCall
    /\ frame = Frame0
    /\ data = <<>>
    /\ ret = NoRet
    /\ ext = [writes |-> 0, submits |-> 0, polls |-> 0, uuids |-> 0]
    /\ snap = [latest_id |-> None, filenames |-> <<>>, fs |-> {}]
    /\ budget = [calls |-> calls, circuits |-> circuits]

InitDevice(calls, circuits) ==
    /\ \E keep \in BOOLEAN, size \in BatchSizes : NewDevice(keep, size, calls, circuits)
    /\ poll = NoPoll
    /\ env = NoEnv
    /\ fn = NoFn

Init == InitDevice(MaxCalls, MaxSmall)

InitBatch == InitDevice(1, MaxCircuits)

Next ==
    \/ Execute
    \/ BatchExecute
    \/ MultiStepExecute
    \/ QeSubmit
    \/ Results
    \/ TakeResult

Spec == Init /\ [][Next]_vars

SpecBatch == InitBatch /\ [][Next]_vars

\* multiple_steps_results on the artifacts of up to MaxCircuits steps
InitSort ==
    /\ NewDevice(FALSE, DefaultBatchSize, 0, 0)
    /\ poll = NoPoll
    /\ env = NoEnv
    /\ \E n \in 1..MaxCircuits : \E order \in WriteOrders(n) :
        fn = [name |-> "multiple_steps_results", d |-> SortArtifact(n, order),
              out |-> try_result("none", <<>>), returned |-> FALSE]

NextSort == MultipleStepsResults

SpecSort == InitSort /\ [][NextSort]_vars

\* gen_expval_workflow on lists of up to MaxPairs circuits and operators
InitWorkflow ==
    /\ NewDevice(FALSE, DefaultBatchSize, 0, 0)
    /\ poll = NoPoll
    /\ env = NoEnv
    /\ \E component \in Components, circuits \in WorkflowCircuits,
          operators \in WorkflowOperators, resources \in {None, "cpu: 1"} :
        fn = [name |-> "gen_expval_workflow", component |-> component,
              backend_specs |-> create_backend_specs(OrquestraDevice(FALSE, DefaultBatchSize)),
              circuits |-> circuits, operators |-> operators,
              resources |-> resources, returned |-> FALSE, out |-> [exc |-> "none"]]

NextWorkflow == GenExpvalWorkflowCall

SpecWorkflow == InitWorkflow /\ [][NextWorkflow]_vars

\* the result assembly on the groups and the artifacts of any shape
InitShape ==
    /\ NewDevice(FALSE, DefaultBatchSize, 0, 0)
    /\ poll = NoPoll
    /\ env = NoEnv
    /\ \E circuits \in ShapeGroups, d \in ShapeArtifacts :
        fn = [name |-> "assemble_results", circuits |-> circuits, d |-> d,
              steps |-> 0, returned |-> FALSE, out |-> [exc |-> "none", val |-> <<>>]]

NextShape == AssembleResultsCall

SpecShape == InitShape /\ [][NextShape]_vars

\* a device after construction, its backend_specs not yet looked at
InitSpecs ==
    /\ \E keep \in BOOLEAN, size \in BatchSizes : NewDevice(keep, size, 0, 0)
    /\ poll = NoPoll
    /\ env = NoEnv
    /\ fn = [name |-> "backend_specs", accesses |-> 0, creates |-> 0,
             first |-> None, out |-> None, stale |-> FALSE]

NextSpecs ==
    \/ BackendSpecsAccess
    \/ SetShots
    \/ SetBackend

SpecSpecs == InitSpecs /\ [][NextSpecs]_vars

\* the result extractors on the artifacts of FormatArtifacts
InitFormat ==
    /\ NewDevice(FALSE, DefaultBatchSize, 0, 0)
    /\ poll = NoPoll
    /\ env = NoEnv
    /\ \E d \in FormatArtifacts :
        fn = [name |-> "results", d |-> d, multi |-> FALSE, returned |-> FALSE,
              out |-> try_result("none", <<>>)]

NextFormat ==
    \/ SingleStepResultsCall
    \/ MultipleStepsResultsCall

SpecFormat == InitFormat /\ [][NextFormat]_vars

\* qe_submit(filepath, keep_file) on a workflow file that exists
InitSubmit ==
    /\ NewDevice(FALSE, DefaultBatchSize, 0, 0)
    /\ poll = NoPoll
    /\ env = NoEnv
    /\ \E res \in SubmitOutputs, keep_file \in BOOLEAN :
        fn = [name |-> "qe_submit", res |-> res, keep_file |-> keep_file,
              file_exists |-> TRUE, returned |-> FALSE,
              out |-> [exc |-> "none", msg |-> <<>>, removed |-> FALSE,
                       workflow_id |-> None]]

NextSubmit == QeSubmitCall

SpecSubmit == InitSubmit /\ [][NextSubmit]_vars

\* loop_until_finished(workflow_id, timeout) from its entry
InitPoll ==
    /\ NewDevice(FALSE, DefaultBatchSize, 0, 0)
    /\ fn = NoFn
    /\ \E timeout \in PollTimeouts :
        poll = [pc |-> "polling", workflow_id |-> WorkflowId(1), timeout |-> timeout,
                start |-> 0, tries |-> 0, elapsed |-> 0, queried |-> FALSE,
                location |-> None, exc |-> "none", msg |-> <<>>, data |-> None,
                fetches |-> 0, is_tarfile |-> FALSE,
                status_queries |-> 0, results_queries |-> 0]
    /\ env = [now |-> 0, status |-> <<>>, results |-> <<>>, live |-> FALSE,
              status_rc |-> 0, results_rc |-> 0,
              everFailed |-> FALSE, everLive |-> FALSE]

NextPoll ==
    \/ Tick
    \/ LoopIteration
    \/ UrlRetrieve

SpecPoll == InitPoll /\ [][NextPoll]_vars

\* the loop keeps iterating and the clock keeps advancing
SpecPollFair == SpecPoll /\ WF_vars(Tick) /\ WF_vars(LoopIteration)

(***************************************************************************)
(* Properties of execute and batch_execute                                 *)
(***************************************************************************)
\* the result of circuit c: what the platform computes from c's own text for
\* each non-identity observable, and 1 for each identity observable
Expected(c) ==
    asarray([j \in 1..Len(c.observables) |->
        IF isIdentity(c.observables[j]) THEN 1
        ELSE Expval(serialize_circuit(c), serialize_operator(c.observables[j]))])

\* every observable of c is expval(Identity)
AllIdentity(c) ==
    \A j \in 1..Len(c.observables) :
        isIdentity(c.observables[j]) /\ c.observables[j].return_type = "Expectation"

\* the number of non-identity observables of c
NonIdentityCount(c) ==
    Cardinality({j \in 1..Len(c.observables) : ~isIdentity(c.observables[j])})

\* the values of list at the non-identity positions of observables, in their
\* order, and 1 at the identity positions
Spliced(list, observables) ==
    [j \in 1..Len(observables) |->
        IF isIdentity(observables[j]) THEN 1
        ELSE list[Cardinality({i \in 1..j : ~isIdentity(observables[i])})]]

\* the result list of the step with numeric suffix r in artifact d
StepList(d, r) ==
    LET i == CHOOSE i \in 1..Len(d) : int(d[i].stepName) = r
    IN  d[i].expval.list

\* C1: batch_execute on two or more circuits, whatever the batch_size and the
\* order in which the platform wrote the step entries, returns one result per
\* input circuit, the i-th being the result computed for the i-th circuit.
C1_BatchExecuteOrder ==
    (pc = "done" /\ call.kind = "batch_execute" /\ Len(call.circuits) >= 2
        /\ ret.kind = "return")
    => /\ Len(ret.val) = Len(call.circuits)
       /\ \A i \in 1..Len(call.circuits) : ret.val[i] = Expected(call.circuits[i])

\* C3: in multi_step_execute the circuit list and the operator list handed to
\* gen_expval_workflow have equal length, and every step of the submitted
\* workflow carries the circuit text and the operators of one same circuit of
\* the group, also when all-identity circuits were left out.
C3_StepsPairSameCircuit ==
    (pc = "loop_until_finished" /\ ~frame.single)
    => /\ Len(frame.qasm_circuits) = Len(frame.ops)
       /\ \A k \in 1..Len(platform.workflow.steps) :
            \E i \in 1..Len(frame.circuits) :
                /\ step_input(platform.workflow.steps[k], "circuit")
                     = serialize_circuit(frame.circuits[i])
                /\ step_input(platform.workflow.steps[k], "operators")
                     = json_dumps(process_observables(frame.circuits[i].observables).ops)

\* the case of C4: execute returned from a submitted workflow whose step gave
\* one value per non-identity observable
C4_Case ==
    /\ pc = "done" /\ call.kind = "execute" /\ ret.kind = "return"
    /\ ~AllIdentity(call.circuits[1])
    /\ Len(data) >= 1
    /\ Len(data[1].expval.list) = NonIdentityCount(call.circuits[1])

\* C4: for a circuit of n observables with the identity at positions I (not all
\* positions), when the remote step returns n - |I| values, execute returns a
\* length-n array with 1 at the positions of I and the remote values, in their
\* returned order, at the other positions.
C4_IdentitySplicing ==
    C4_Case
    => /\ Len(ret.val.array) = Len(call.circuits[1].observables)
       /\ ret.val = asarray(Spliced(data[1].expval.list, call.circuits[1].observables))

\* reachable: execute returned for a circuit measuring Identity, Z, Identity
C4_Witness ==
    /\ C4_Case
    /\ Len(call.circuits[1].observables) = 3
    /\ isIdentity(call.circuits[1].observables[1])
    /\ ~isIdentity(call.circuits[1].observables[2])
    /\ isIdentity(call.circuits[1].observables[3])

\* the positions of the all-identity circuits of the group last processed
EmptyPositions == {k \in 1..Len(frame.circuits) : AllIdentity(frame.circuits[k])}

\* the rank of position k among the positions that are not all-identity
StepRank(k) == Cardinality({i \in 1..k : i \notin EmptyPositions})

\* the case of C5: multi_step_execute returned, for a group with some but not
\* all circuits all-identity, from an artifact with one step per other circuit
C5_Case ==
    /\ ~frame.single /\ frame.res # <<>> /\ pc \in {"multi_step_execute", "done"}
    /\ EmptyPositions # {}
    /\ EmptyPositions # 1..Len(frame.circuits)
    /\ Len(data) = Len(frame.circuits) - Cardinality(EmptyPositions)
    /\ \A k \in (1..Len(frame.circuits)) \ EmptyPositions :
        /\ \E i \in 1..Len(data) : int(data[i].stepName) = StepRank(k) - 1
        /\ Len(StepList(data, StepRank(k) - 1)) = NonIdentityCount(frame.circuits[k])

\* C5: for a group of m circuits with the all-identity circuits at a non-empty
\* proper subset E of the positions and an artifact of m - |E| steps,
\* multi_step_execute returns m results: all-ones arrays (one entry per
\* observable) at the positions of E and, at the other positions in ascending
\* order, the results of the steps with 1 spliced in at the identity positions.
C5_MixedGroup ==
    C5_Case
    => /\ Len(frame.res) = Len(frame.circuits)
       /\ \A k \in 1..Len(frame.circuits) :
            frame.res[k] =
                IF k \in EmptyPositions
                THEN asarray(Ones(Len(frame.circuits[k].observables)))
                ELSE asarray(Spliced(StepList(data, StepRank(k) - 1),
                                     frame.circuits[k].observables))

\* C6: execute on a circuit whose observables are all Identity returns an array
\* of ones, one per observable, writes no workflow file, runs no submit command,
\* does not poll, and leaves latest_id and filenames as they were.
C6_AllIdentityExecute ==
    (call.kind = "execute" /\ AllIdentity(call.circuits[1]))
    => /\ pc = "done"
       /\ ret = Return(asarray(Ones(Len(call.circuits[1].observables))))
       /\ ext.writes = 0 /\ ext.submits = 0 /\ ext.polls = 0
       /\ fs = snap.fs
       /\ dev.latest_id = snap.latest_id
       /\ dev.filenames = snap.filenames

\* reachable: an all-identity execute on a device that has submitted before
C6_Witness ==
    /\ call.kind = "execute" /\ AllIdentity(call.circuits[1])
    /\ Len(call.circuits[1].observables) = 2
    /\ pc = "done"
    /\ snap.latest_id # None
    /\ snap.filenames # <<>>

\* the group multi_step_execute is about to process
CurrentGroup == slice(call.circuits, frame.idx, frame.idx + dev.batch_size)

\* C7: when every circuit of the group handed to multi_step_execute has only
\* Identity observables, the step of multi_step_execute writes no file, submits
\* and polls nothing, and yields an all-ones array per circuit, each with as
\* many entries as the circuit has observables.
C7_AllIdentityGroup ==
    [][(pc = "multi_step_execute"
            /\ \A k \in 1..Len(CurrentGroup) : AllIdentity(CurrentGroup[k]))
       => /\ fs' = fs /\ ext' = ext /\ platform' = platform /\ dev' = dev
          /\ pc' \in {"multi_step_execute", "done"}
          /\ frame'.res = [k \in 1..Len(CurrentGroup) |->
                              asarray(Ones(Len(CurrentGroup[k].observables)))]]_vars

\* reachable: a group of two all-identity circuits got its all-ones results
C7_Witness ==
    /\ ~frame.single /\ Len(frame.circuits) = 2
    /\ \A k \in 1..2 : AllIdentity(frame.circuits[k])
    /\ frame.res = [k \in 1..2 |-> asarray(Ones(Len(frame.circuits[k].observables)))]
    /\ Len(frame.circuits[2].observables) = 2
    /\ data = <<>>
    /\ call.kind = "batch_execute"

(***************************************************************************)
(* Properties of multiple_steps_results and of loop_until_finished         *)
(***************************************************************************)
\* C2: multiple_steps_results, given the step entries with names
\* run-circuit-and-get-expval-<k> in any order, returns the result lists in
\* ascending order of the number k, also when k exceeds 9.
C2_NumericOrder ==
    (fn.name = "multiple_steps_results" /\ fn.returned)
    => /\ fn.out.exc = "none"
       /\ Len(fn.out.val) = Len(fn.d)
       /\ \A r \in 0..(Len(fn.d) - 1) : fn.out.val[r + 1] = StepList(fn.d, r)

\* C8: as long as no results answer has named a location that can be opened,
\* loop_until_finished does not leave the loop towards a result; TimeoutError is
\* raised only on an iteration whose elapsed time is strictly greater than the
\* timeout; and when no answer ever names such a location and no status ever
\* holds the token Failed, TimeoutError is eventually raised.
C8_Timeout ==
    /\ [](poll.pc \in {"urlretrieve", "returned"} => env.everLive)
    /\ [](poll.exc = "TimeoutError" => poll.elapsed > poll.timeout)
    /\ <>(env.everLive \/ env.everFailed \/ poll.exc = "TimeoutError")

\* reachable: TimeoutError after more than 20 iterations, none of which saw an
\* openable location or the token Failed
C8_Witness ==
    /\ poll.pc = "raised" /\ poll.exc = "TimeoutError"
    /\ ~env.everLive /\ ~env.everFailed
    /\ poll.tries > 20
    /\ poll.elapsed = poll.timeout + 1

\* C9: when the status holds the token Failed at the periodic check of the 20th
\* iteration and the timeout has not elapsed, loop_until_finished raises
\* ValueError with the status text instead of going on polling.
C9_FailedStatus ==
    (poll.tries = 20 /\ ~(poll.elapsed > poll.timeout)
        /\ "Failed" \in Range(join_split(env.status)))
    => /\ poll.pc = "raised"
       /\ poll.exc = "ValueError"
       /\ poll.msg = env.status

\* reachable: the 20th iteration, within the timeout, found the token Failed
C9_Witness ==
    /\ poll.tries = 20 /\ poll.elapsed = 1 /\ poll.timeout = MaxTimeout
    /\ "Failed" \in Range(join_split(env.status))
    /\ poll.exc = "ValueError"

\* C10: an iteration that queried the results and got a text with too few lines
\* or tokens to hold a location, or a location that cannot be opened, raises
\* nothing and does not end the loop: the poller goes on polling.
C10_NotReadyContinues ==
    (poll.queried
        /\ (Len(env.results) < 2 \/ Len(env.results[2]) < 2 \/ ~env.live))
    => /\ poll.pc = "polling"
       /\ poll.exc = "none"

\* reachable: an iteration got a location that could not be opened, after an
\* earlier iteration: the poller is still polling
C10_Witness ==
    /\ poll.queried /\ poll.tries >= 2
    /\ Len(env.results) >= 2 /\ Len(env.results[2]) >= 2 /\ ~env.live
    /\ poll.pc = "polling"

\* the last iteration extracted a location from the results text and opened it
C11_LastIterationLive ==
    /\ poll.queried
    /\ Len(env.results) >= 2 /\ Len(env.results[2]) >= 2 /\ env.live
    /\ poll.location = env.results[2][2]

\* C11: loop_until_finished leaves the loop, and returns a decoded artifact,
\* only after an iteration that extracted a location from the results text and
\* opened it; it then fetches the resource once, and when the resource is not a
\* tar archive it raises ValueError (not a tarfile) and returns nothing.
C11_SuccessThenFetch ==
    /\ poll.pc = "urlretrieve" => (C11_LastIterationLive /\ poll.fetches = 0)
    /\ poll.pc = "returned"
         => (C11_LastIterationLive /\ poll.fetches = 1 /\ poll.is_tarfile
             /\ poll.data # None)
    /\ poll.pc # "idle" => poll.fetches <= 1
    /\ (poll.pc # "idle" /\ poll.fetches = 1 /\ ~poll.is_tarfile)
         => (poll.pc = "raised" /\ poll.exc = "ValueError" /\ poll.data = None
             /\ "tarfile." \in Range(join_split(poll.msg)))

\* reachable: the resource fetched after the third iteration was not a tar archive
C11_Witness ==
    /\ poll.pc = "raised" /\ poll.exc = "ValueError"
    /\ poll.fetches = 1 /\ ~poll.is_tarfile
    /\ poll.tries = 3
    /\ C11_LastIterationLive

\* C12: a status or results query whose process exits with a non-zero code is a
\* fatal error raised to the caller of loop_until_finished: the iteration that
\* made the query does not go on as if the workflow were not ready yet.
C12_GatewayFailureFatal ==
    /\ (poll.queried /\ env.results_rc # 0) => poll.pc = "raised"
    /\ (poll.pc # "idle" /\ poll.tries > 0 /\ poll.tries % 20 = 0
            /\ ~(poll.elapsed > poll.timeout) /\ env.status_rc # 0)
         => (poll.pc = "raised" /\ poll.exc # "TimeoutError")

(***************************************************************************)
(* Properties of qe_submit                                                  *)
(***************************************************************************)
\* no token of the output of the submit call under check holds "Success"
C13_NoSuccess ==
    \A i \in 1..Len(fn.res.lines) : \A j \in 1..Len(fn.res.lines[i]) :
        fn.res.lines[i][j] \notin {"Success", "Successfully"}

\* C13: whenever the substring Success does not occur in the joined output of
\* the submit command, qe_submit raises ValueError carrying the raw output
\* lines and returns no workflow id.
C13_NoSuccessRaises ==
    (fn.name = "qe_submit" /\ fn.returned /\ C13_NoSuccess)
    => /\ fn.out.exc = "ValueError"
       /\ fn.out.msg = fn.res.lines
       /\ fn.out.workflow_id = None

\* reachable: an output with "success" in lower case and an id on its second
\* line was refused
C13_Witness ==
    /\ fn.name = "qe_submit" /\ fn.returned /\ fn.res.is_list
    /\ fn.res.lines = <<<<"success">>, <<"Workflow", "ID:", "wf-1">>>>
    /\ fn.out.exc = "ValueError"

\* the output under check has no second line or no token on its second line,
\* or is not a list of lines
C14_NoHandle ==
    \/ ~fn.res.is_list
    \/ Len(fn.res.lines) < 2
    \/ Len(fn.res.lines[2]) = 0

\* C14: when the output holds Success, qe_submit raises ValueError (unexpected
\* response) if the output has no second line, no token on its second line, or
\* is not a list of lines; otherwise it returns the last token of the second
\* line.
C14_HandleOrUnexpected ==
    (fn.name = "qe_submit" /\ fn.returned /\ ~C13_NoSuccess)
    => IF C14_NoHandle
       THEN fn.out.exc = "ValueError" /\ fn.out.msg = UnexpectedResponse
            /\ fn.out.workflow_id = None
       ELSE fn.out.exc = "none"
            /\ fn.out.workflow_id = fn.res.lines[2][Len(fn.res.lines[2])]

\* reachable: the id was taken from the end of a second line of three tokens
C14_Witness ==
    /\ fn.name = "qe_submit" /\ fn.returned /\ fn.res.is_list
    /\ fn.res.lines = <<<<"Success">>, <<"Workflow", "ID:", "wf-1">>>>
    /\ fn.out.workflow_id = "wf-1"

\* C15: when qe_submit returns a workflow id, the workflow file exists exactly
\* when keep_file is true; with keep_file true qe_submit never deletes it,
\* however it ends.
C15_FileKeptIffKeepFile ==
    (fn.name = "qe_submit" /\ fn.returned)
    => /\ fn.out.exc = "none" => (fn.file_exists <=> fn.keep_file)
       /\ fn.keep_file => fn.file_exists

\* reachable: qe_submit returned an id and the file is gone
C15_Witness ==
    /\ fn.name = "qe_submit" /\ fn.returned
    /\ fn.out.exc = "none" /\ fn.out.workflow_id = "wf-1"
    /\ ~fn.keep_file /\ ~fn.file_exists

C17_LatestId ==
    dev.latest_id =
        IF platform.handles = <<>> THEN None
        ELSE platform.handles[Len(platform.handles)].workflow_id

\* reachable: polling of the second workflow ended with a timeout
C17_Witness ==
    /\ pc = "done" /\ ret.exc = "TimeoutError"
    /\ Len(platform.handles) = 2
    /\ dev.latest_id = platform.handles[2].workflow_id
    /\ dev.latest_id # platform.handles[1].workflow_id

(***************************************************************************)
(* Properties of the result extractors on malformed artifacts              *)
(***************************************************************************)
\* entry e is not a dict, or lacks "expval", or its "expval" is not a dict or
\* lacks "list"
C18_BadEntry(e) ==
    \/ "not_mapping" \in DOMAIN e
    \/ "expval" \notin DOMAIN e
    \/ "not_mapping" \in DOMAIN e.expval
    \/ "list" \notin DOMAIN e.expval

\* the artifact under check does not have the structure the extractor expects:
\* it is no dict, it is empty, or an entry the extractor reads is malformed
C18_Malformed ==
    \/ ~fn.d.is_dict
    \/ fn.d.items = <<>>
    \/ ~fn.multi /\ C18_BadEntry(fn.d.items[1])
    \/ fn.multi /\ \E i \in 1..Len(fn.d.items) :
            \/ C18_BadEntry(fn.d.items[i])
            \/ "stepName" \notin DOMAIN fn.d.items[i]

\* C18: single_step_results and multiple_steps_results raise ValueError
\* (Unexpected result format), after one fresh status query, for every artifact
\* that is no dict, is empty, or has a malformed entry; no other exception
\* escapes and nothing is returned.
C18_MalformedRaises ==
    (fn.name = "results" /\ fn.returned /\ C18_Malformed)
    => /\ fn.out.exc = "ValueError"
       /\ fn.out.status_queries = 1

(***************************************************************************)
(* Properties of gen_expval_workflow                                       *)
(***************************************************************************)
\* C19: for a supported component and lists of circuits and operators of equal
\* length, the document has one step per pair, the k-th step (from 0) is named
\* with the suffix k, and its inputs are exactly the three entries
\* backend_specs, operators, circuit, in this order, holding backend_specs,
\* operators[k] and circuits[k].
C19_StepsFromPairs ==
    (/\ fn.name = "gen_expval_workflow" /\ fn.returned
     /\ fn.component \in {"qe-forest", "qe-qiskit", "qe-qulacs"}
     /\ Len(fn.circuits) = Len(fn.operators))
    => /\ fn.out.exc = "none"
       /\ Len(fn.out.steps) = Len(fn.circuits)
       /\ \A k \in 1..Len(fn.circuits) :
            /\ fn.out.steps[k].name = str(k - 1)
            /\ fn.out.steps[k].inputs =
                   <<[key |-> "backend_specs", val |-> fn.backend_specs],
                     [key |-> "operators", val |-> fn.operators[k]],
                     [key |-> "circuit", val |-> fn.circuits[k]]>>

\* a document of two steps built from two different operator lists
C19_Witness ==
    /\ fn.name = "gen_expval_workflow" /\ fn.returned
    /\ fn.component = "qe-qiskit"
    /\ Len(fn.circuits) = 2 /\ Len(fn.operators) = 2
    /\ fn.operators[1] # fn.operators[2]
    /\ fn.circuits[1] # fn.circuits[2]
    /\ fn.out.exc = "none" /\ Len(fn.out.steps) = 2

\* C20: for a component that is not one of the supported keys,
\* gen_expval_workflow raises ValueError (The specified backend component is
\* not supported.) whatever the other arguments are, and builds no document.
C20_UnsupportedComponent ==
    (/\ fn.name = "gen_expval_workflow" /\ fn.returned
     /\ fn.component \notin {"qe-forest", "qe-qiskit", "qe-qulacs"})
    => /\ fn.out.exc = "ValueError"
       /\ fn.out.msg = "The specified backend component is not supported."
       /\ "steps" \notin DOMAIN fn.out

\* the unsupported component with two circuits and two operator lists
C20_Witness ==
    /\ fn.name = "gen_expval_workflow" /\ fn.returned
    /\ fn.component = "qe-unknown"
    /\ Len(fn.circuits) = 2 /\ Len(fn.operators) = 2
    /\ fn.out.exc = "ValueError"

(***************************************************************************)
(* Properties of the input checks                                          *)
(***************************************************************************)
\* some circuit of the call in progress has an observable whose return type
\* is not an expectation value
C21_NotAllExpval ==
    \E k \in 1..Len(call.circuits) : not_all_expval(call.circuits[k])

\* C21: a call of execute on a circuit with a non-expectation observable ends
\* with NotImplementedError, with no workflow file written, no workflow
\* submitted, and latest_id and filenames as they were before the call; a call
\* of batch_execute on a list with such a circuit ends with
\* NotImplementedError too.
C21_NonExpvalRejected ==
    (pc = "done" /\ C21_NotAllExpval)
    => /\ ret.kind = "raise"
       /\ ret.exc = "NotImplementedError"
       /\ call.kind = "execute"
          => /\ ext.writes = 0 /\ ext.submits = 0
             /\ fs = snap.fs
             /\ dev.latest_id = snap.latest_id
             /\ dev.filenames = snap.filenames

\* the part of C21 on execute, and on lists that are one group
C21_ExecuteRejected ==
    (/\ pc = "done" /\ C21_NotAllExpval
     /\ call.kind = "execute" \/ Len(call.circuits) <= dev.batch_size)
    => /\ ret.kind = "raise"
       /\ ret.exc = "NotImplementedError"
       /\ ext.writes = 0 /\ ext.submits = 0
       /\ fs = snap.fs
       /\ dev.latest_id = snap.latest_id
       /\ dev.filenames = snap.filenames

\* C28: batch_execute checks the whole list before it has an external effect:
\* in a call on a list with a circuit that has a non-expectation observable, no
\* workflow file is written and no workflow is submitted for any group, and
\* the call ends with NotImplementedError.
C28_WholeBatchValidated ==
    (call.kind = "batch_execute" /\ C21_NotAllExpval)
    => /\ ext.writes = 0 /\ ext.submits = 0
       /\ fs = snap.fs
       /\ pc = "done" => ret.exc = "NotImplementedError"

\* the part of C28 that holds: the group multi_step_execute is called on is
\* checked as a whole before a file is written or a workflow submitted for it
C28_GroupValidated ==
    [][(/\ pc = "multi_step_execute"
        /\ \E k \in 1..Len(CurrentGroup) : not_all_expval(CurrentGroup[k]))
       => /\ pc' = "done" /\ ret'.exc = "NotImplementedError"
          /\ UNCHANGED <<dev, fs, ext, platform>>]_vars

(***************************************************************************)
(* Properties of the order of the checks in the polling loop               *)
(***************************************************************************)
\* C22: in one iteration the checks run in the order timeout, status check,
\* results query: after an iteration in which the elapsed time exceeded the
\* timeout, the loop has raised TimeoutError, with its one status query and
\* no results query, whatever the status and the results would have been;
\* after a 20th iteration within the timeout whose status contains Failed, the
\* loop has raised the error of the remote execution without a results query,
\* even when a result location could have been opened.
C22_CheckOrder ==
    (poll.pc # "idle" /\ poll.tries > 0)
    => /\ poll.elapsed > poll.timeout
          => /\ poll.pc = "raised" /\ poll.exc = "TimeoutError"
             /\ ~poll.queried
             /\ poll.status_queries = (poll.tries - 1) \div StatusPeriod + 1
       /\ (/\ poll.elapsed <= poll.timeout
           /\ poll.tries % StatusPeriod = 0
           /\ "Failed" \in Range(join_split(env.status)))
          => /\ poll.pc = "raised" /\ poll.exc = "ValueError"
             /\ ~poll.queried

\* the 20th iteration finds the timeout exceeded while the status contains
\* Failed and a result location can be opened
C22_Witness ==
    /\ poll.pc = "raised" /\ poll.exc = "TimeoutError"
    /\ poll.tries = StatusPeriod
    /\ has_failed(env.status)
    /\ Dereferenceable(env.results, env.live)

(***************************************************************************)
(* The poller as a state machine                                           *)
(***************************************************************************)
\* the state of the poller: POLLING inside the while loop, TIMED_OUT and
\* FAILED after the two raise statements of the loop, SUCCESS once the loop
\* was left after urlopen returned (the retrieval that follows belongs to
\* SUCCESS), OTHER for any other way out of the loop
PollState ==
    IF poll.pc = "polling" THEN "POLLING"
    ELSE IF poll.pc = "raised" /\ poll.fetches = 0 /\ poll.exc = "TimeoutError"
    THEN "TIMED_OUT"
    ELSE IF poll.pc = "raised" /\ poll.fetches = 0 /\ poll.exc = "ValueError"
    THEN "FAILED"
    ELSE IF poll.pc = "urlretrieve" \/ poll.fetches = 1
    THEN "SUCCESS"
    ELSE "OTHER"

\* C23: when every external call returns and the clock advances, a run of
\* loop_until_finished leaves POLLING after finitely many iterations; it
\* leaves it into SUCCESS, FAILED or TIMED_OUT and in no other way; no
\* transition leaves one of these three states, and the loop body does not
\* run (no iteration, no results query, no status query) once one is reached.
C23_Terminates ==
    /\ <>(PollState # "POLLING")
    /\ [](PollState \in {"POLLING", "SUCCESS", "FAILED", "TIMED_OUT"})
    /\ [][PollState # "POLLING"
          => /\ PollState' = PollState
             /\ poll'.tries = poll.tries
             /\ poll'.results_queries = poll.results_queries
             /\ poll'.status_queries = poll.status_queries]_vars

\* the loop was left into SUCCESS after more than one iteration, and the
\* artifact was returned
C23_Witness ==
    /\ PollState = "SUCCESS"
    /\ poll.pc = "returned"
    /\ poll.tries > 1

(***************************************************************************)
(* The number of queries of the poller                                     *)
(***************************************************************************)
\* C24: the status is queried only in an iteration whose 1-based count is a
\* multiple of 20, and once more in the iteration that times out: after N
\* iterations at most N \div 20 + 1 status queries were made, and none during
\* the iterations 1..19 unless the timeout fired; an iteration makes at most
\* one results query.
C24_QueryCounts ==
    /\ [](poll.pc # "idle"
          => /\ poll.status_queries <= poll.tries \div StatusPeriod + 1
             /\ (poll.tries < StatusPeriod /\ poll.exc # "TimeoutError")
                => poll.status_queries = 0
             /\ poll.results_queries <= poll.tries)
    /\ [][/\ poll'.status_queries # poll.status_queries
             => /\ poll'.tries = poll.tries + 1
                /\ poll'.status_queries = poll.status_queries + 1
                /\ poll'.tries % StatusPeriod = 0 \/ poll'.exc = "TimeoutError"
          /\ poll'.results_queries # poll.results_queries
             => /\ poll'.tries = poll.tries + 1
                /\ poll'.results_queries = poll.results_queries + 1]_vars

\* a run that made the status query of its 20th iteration, went on, and made
\* a second one when its 21st iteration timed out
C24_Witness ==
    /\ poll.pc = "raised" /\ poll.exc = "TimeoutError"
    /\ poll.tries = StatusPeriod + 1
    /\ poll.status_queries = 2
    /\ poll.results_queries = StatusPeriod

(***************************************************************************)
(* The groups of one batch_execute call, one after the other               *)
(***************************************************************************)
\* the call in progress is a batch_execute on two circuits or more
C25_Grouped == call.kind = "batch_execute" /\ Len(call.circuits) > 1

\* the groups batch_execute is done with: their results were assembled
C25_GroupsDone == frame.idx \div dev.batch_size

\* C25: in one batch_execute call the workflow of a group is submitted only
\* after every workflow submitted for an earlier group was polled to its end
\* and the results of that group were assembled; an error of the submission,
\* of the polling or of the result assembly ends the call with that error, and
\* after it nothing is written, submitted or polled; no group is submitted
\* twice.
C25_OneGroupAtATime ==
    /\ [](C25_Grouped
          => /\ pc \in {"multi_step_execute", "qe_submit"}
                => /\ ext.submits = ext.polls
                   /\ ext.submits <= C25_GroupsDone
                   /\ ret.kind = "none"
             /\ pc = "loop_until_finished"
                => /\ ext.submits = ext.polls + 1
                   /\ ext.submits <= C25_GroupsDone + 1
                   /\ ret.kind = "none"
             /\ Cardinality({platform.handles[i].filename :
                                i \in 1..Len(platform.handles)})
                = Len(platform.handles))
    /\ [][C25_Grouped
          => /\ ext'.submits # ext.submits
                => /\ pc = "qe_submit"
                   /\ ext'.submits = ext.submits + 1
                   /\ Len(platform'.handles) = Len(platform.handles)
                      => pc' = "done" /\ ret' = Raise("ValueError")
             /\ ext'.polls # ext.polls
                => /\ pc = "loop_until_finished"
                   /\ pc' \in {"done", "multi_step_execute"}
                   /\ pc' = "multi_step_execute"
                      => frame'.idx = frame.idx + dev.batch_size
             /\ ret'.kind = "raise" => pc' = "done"
             /\ pc = "done" => pc' = "idle" /\ ext' = ext /\ platform'.count = platform.count
                               /\ fs' = fs /\ dev' = dev]_vars

\* the workflow of the second group is submitted after the first group was
\* submitted, polled and assembled
C25_Witness ==
    /\ C25_Grouped
    /\ pc = "loop_until_finished"
    /\ frame.idx > 0
    /\ Len(frame.results) > 0
    /\ ext.submits = 2 /\ ext.polls = 1

(***************************************************************************)
(* The partition of a batch into groups                                    *)
(***************************************************************************)
\* C26: for n >= 2 circuits and batch_size b, batch_execute processes the
\* groups k = 0, 1, ... one per call of multi_step_execute, group k being the
\* circuits from index k * b up to min((k + 1) * b, n): it is not empty and
\* not longer than b; the workflow file of group k is named with the run
\* identifier of the call and k * b, a name no earlier submission had; and
\* batch_execute returns when exactly ceil(n / b) groups were processed, with
\* one result per circuit.
C26_Groups ==
    /\ [](C25_Grouped
          => /\ pc \in {"multi_step_execute", "qe_submit", "loop_until_finished"}
                => /\ frame.idx % dev.batch_size = 0
                   /\ frame.idx < Len(call.circuits)
             /\ pc \in {"qe_submit", "loop_until_finished"}
                => /\ frame.circuits =
                        [j \in 1..(IF frame.idx + dev.batch_size < Len(call.circuits)
                                   THEN dev.batch_size
                                   ELSE Len(call.circuits) - frame.idx) |->
                            call.circuits[frame.idx + j]]
                   /\ Len(frame.circuits) \in 1..dev.batch_size
                   /\ frame.filename = "expval-" \o frame.file_prefix \o "-"
                                       \o ToString(frame.idx) \o ".yaml"
                   /\ pc = "qe_submit"
                      => \A i \in 1..Len(platform.handles) :
                            platform.handles[i].filename # frame.filename
             /\ (pc = "done" /\ ret.kind = "return")
                => /\ frame.idx \div dev.batch_size
                      = (Len(call.circuits) + dev.batch_size - 1) \div dev.batch_size
                   /\ frame.idx % dev.batch_size = 0
                   /\ Len(ret.val) = Len(call.circuits))
    /\ [][(C25_Grouped /\ pc = "multi_step_execute" /\ pc' = "multi_step_execute")
          => /\ frame'.idx = frame.idx + dev.batch_size
             /\ frame'.file_prefix = frame.file_prefix]_vars

\* three circuits in groups of two: batch_execute returned after two groups,
\* the second one of a single circuit, both submitted
C26_Witness ==
    /\ C25_Grouped
    /\ pc = "done" /\ ret.kind = "return"
    /\ Len(call.circuits) = 3 /\ dev.batch_size = 2
    /\ frame.idx = 4
    /\ ext.submits = 2

(***************************************************************************)
(* The cache of the backend specification                                  *)
(***************************************************************************)
\* C27: a device builds its backend specification at most once: the first
\* access of backend_specs calls create_backend_specs and stores the string,
\* and every later access returns that string without another call, also
\* when shots or backend were changed in between.
C27_BuiltOnce ==
    fn.name = "backend_specs"
    => /\ fn.creates <= 1
       /\ fn.accesses = 0 => fn.creates = 0 /\ dev.backend_specs = None
       /\ fn.accesses > 0
          => /\ fn.creates = 1
             /\ fn.out = fn.first
             /\ dev.backend_specs = fn.first
             /\ fn.first # None

\* a later access returned the string of the first access although the
\* options of the device would now give another one
C27_Witness ==
    /\ fn.name = "backend_specs"
    /\ fn.accesses = 2
    /\ fn.stale
    /\ fn.out = fn.first

(***************************************************************************)
(* The workflow file when qe_submit raises                                 *)
(***************************************************************************)
\* C29: qe_submit deletes the workflow file only when it returns a workflow
\* id: when it raises, for the lack of Success in the output or for an
\* unexpected response, the file is still there, whatever keep_file is.
C29_FileLeftOnError ==
    (fn.name = "qe_submit" /\ fn.returned /\ fn.out.exc # "none")
    => fn.file_exists

\* the part of C29 that holds: the file is left in place when the output
\* lacks Success, and deleted in no case when keep_file is true
C29_FileLeftOnNoSuccess ==
    (fn.name = "qe_submit" /\ fn.returned /\ fn.out.exc # "none")
    => ((fn.keep_file \/ fn.out.msg # UnexpectedResponse) => fn.file_exists)

(***************************************************************************)
(* The shape of the results of a group                                     *)
(***************************************************************************)
\* the artifact has one entry per submitted step, and the value list of the
\* k-th step has one value per non-identity observable of the k-th circuit
\* that has one
C30_WellShaped ==
    LET with_ops == Ascending({j \in 1..Len(fn.circuits) :
                                  ~AllIdentity(fn.circuits[j])})
    IN  /\ Len(fn.d.items) = Len(with_ops)
        /\ \A k \in 1..Len(with_ops) :
              Len(fn.d.items[k].expval.list) = NonIdentityCount(fn.circuits[with_ops[k]])

\* the value returned has one array per circuit, the j-th with one entry per
\* observable of circuit j
C30_RightShape ==
    /\ fn.out.exc = "none"
    /\ Len(fn.out.val) = Len(fn.circuits)
    /\ \A j \in 1..Len(fn.circuits) :
          Len(fn.out.val[j].array) = Len(fn.circuits[j].observables)

\* C30: for a group of m circuits, multi_step_execute either returns m
\* results, the j-th with as many entries as circuit j has observables, or
\* raises the result-format error (ValueError): an artifact with another
\* number of step entries than steps were submitted, or with a value list of
\* another length than its circuit has non-identity observables, gives no
\* result list of a wrong shape and no exception of another type.
C30_ShapeOrFormatError ==
    (fn.name = "assemble_results" /\ fn.returned)
    => \/ C30_RightShape
       \/ fn.out.exc = "ValueError"

\* the part of C30 that holds: an artifact of the right shape gives results of
\* the right shape
C30_WellShapedGivesRightShape ==
    (fn.name = "assemble_results" /\ fn.returned /\ C30_WellShaped)
    => C30_RightShape

====
